---- MODULE Spec2Model ----
(***************************************************************************)
(* BatchCollector (src/src/index.ts): a buffer of items that is flushed to *)
(* subscribers by a timer, optionally mirrored to localStorage or          *)
(* sessionStorage and replayed by the next instance constructed on the key.*)
(*                                                                         *)
(* The host is modelled with it: the table of pending setTimeout callbacks *)
(* (each with the time left until it is due; run when due, ties in         *)
(* creation order, never late) and the two Storage objects, each reduced   *)
(* to the one key the collectors use.                                      *)
(* Every public method and every timer callback runs to completion as one  *)
(* step.                                                                   *)
(***************************************************************************)
EXTENDS Integers, Sequences, FiniteSets, TLC

\* ------------------------------------------------------------------ bounds
NumInst == 3
MaxPush == 3
MaxDelay == 2
MaxEmit == 3
NumShared == 2

Inst == 1..NumInst
Delays == 1..MaxDelay
Listeners == {"L1"}

\* The event the collector emits, and another name a caller may subscribe to.
BATCH_FLUSH_EVENT == "flush"
Events == {BATCH_FLUSH_EVENT, "other"}

\* Callbacks of which one throws whenever it is called.
Throwing == {"LT"}
Returning == {"L1", "L2"}
AllListeners == Returning \cup Throwing
Throws(l) == l \in Throwing

\* A callback that calls push(item) on the collector that called it.
Pushing == {"LP"}

None == -1
StorageKinds == {"localStorage", "sessionStorage"}
StorageTypes == {"memory"} \cup StorageKinds

\* ------------------------------------------------------------ stored text
\* The value Storage.getItem returns: null (Absent) or a string. A string is
\* modelled by what JSON.parse makes of it: the text of an array (with the
\* texts of its elements), the text of another JSON value, text that does
\* not parse, or the empty string.
Absent == [kind |-> "null", elems |-> <<>>]
ArrayText(ts) == [kind |-> "array", elems |-> ts]
ObjectText == [kind |-> "object", elems |-> <<>>]
BadText == [kind |-> "unparsable", elems |-> <<>>]
EmptyText == [kind |-> "empty", elems |-> <<>>]

NumText(v) == [num |-> v]

JSONstringify(items) == ArrayText([k \in 1..Len(items) |-> NumText(items[k])])

\* JSON.parse: ok is FALSE when it throws; isArray is Array.isArray(parsed).
JSONparse(raw) ==
  CASE raw.kind = "array" ->
         [ok |-> TRUE, isArray |-> TRUE,
          value |-> [k \in 1..Len(raw.elems) |-> raw.elems[k].num]]
    [] raw.kind = "object" -> [ok |-> TRUE, isArray |-> FALSE, value |-> <<>>]
    [] OTHER -> [ok |-> FALSE, isArray |-> FALSE, value |-> <<>>]

\* !raw : null and the empty string are falsy.
Falsy(raw) == raw.kind \in {"null", "empty"}

\* ------------------------------------------------------------------ state
VARIABLES
  hasWindow,   \* typeof window !== "undefined"
  store,       \* store[kind]: the value under the storage key
  timers,      \* pending setTimeout callbacks, in creation order
  nextId,      \* the next timer id setTimeout returns
  objs,        \* objs[i]: the fields of instance i
  emitted,     \* emitted[i]: the emit calls of instance i, in order
  ret,         \* the value the last public method returned
  lastOp,      \* the last step taken
  sinceLast,   \* sinceLast[i]: time since the last push of the current cycle
  sinceFirst,  \* sinceFirst[i]: time since the first push of the current cycle
  cycleItems,  \* cycleItems[i]: items pushed in the current cycle
  npush,       \* pushes made so far
  store0,      \* what the storages held before any collector was constructed
  lastClear,   \* lastClear[i]: pushes made when clear() was last called
  writeThrows, \* Storage.setItem and Storage.removeItem throw
  thrown,      \* an exception has left a method or a timer callback
  unsubs       \* unsubs[i]: the unsubscribe functions subscribe has returned

vars == <<hasWindow, store, timers, nextId, objs, emitted, ret, lastOp,
          sinceLast, sinceFirst, cycleItems, npush, store0, lastClear,
          writeThrows, thrown, unsubs>>

\* The state as one value, so that a method is an operator from state to state.
World ==
  [hasWindow |-> hasWindow, store |-> store, timers |-> timers,
   nextId |-> nextId, objs |-> objs, emitted |-> emitted, ret |-> ret,
   sinceLast |-> sinceLast, sinceFirst |-> sinceFirst,
   cycleItems |-> cycleItems, writeThrows |-> writeThrows,
   thrown |-> thrown, unsubs |-> unsubs, npush |-> npush]

Commit(w) ==
  /\ hasWindow' = w.hasWindow
  /\ store' = w.store
  /\ timers' = w.timers
  /\ nextId' = w.nextId
  /\ objs' = w.objs
  /\ emitted' = w.emitted
  /\ ret' = w.ret
  /\ sinceLast' = w.sinceLast
  /\ sinceFirst' = w.sinceFirst
  /\ cycleItems' = w.cycleItems
  /\ writeThrows' = w.writeThrows
  /\ thrown' = w.thrown
  /\ unsubs' = w.unsubs

Configs ==
  [delayMs : Delays, resetTimerOnPush : BOOLEAN,
   storageType : StorageTypes, autoClear : BOOLEAN]

\* listeners = new Map(): an event without a Set has no callbacks.
NoListeners == [e \in Events |-> <<>>]

\* An instance before its constructor has run.
Unborn ==
  [live |-> FALSE, delayMs |-> 1, resetTimerOnPush |-> TRUE,
   storageType |-> "memory", autoClear |-> TRUE,
   buffer |-> <<>>, timerId |-> None, listeners |-> NoListeners]

\* --------------------------------------------------------------- the host
SeqRange(s) == {s[k] : k \in 1..Len(s)}

\* setTimeout(fn, delay): a new pending timer; its id is w.nextId.
setTimeout(w, i, kind, payload, delay) ==
  [w EXCEPT !.timers = Append(@, [id |-> w.nextId, left |-> delay,
                                  inst |-> i, kind |-> kind,
                                  payload |-> payload]),
            !.nextId = @ + 1]

\* clearTimeout(id): the timer, if still pending, never runs.
clearTimeout(w, id) ==
  LET Keep(t) == t.id # id
  IN [w EXCEPT !.timers = SelectSeq(@, Keep)]

\* ------------------------------------------------- BatchCollector methods
NoStorage == "null"

\* getStorage(): the Storage the instance is bound to, or null.
getStorage(w, i) ==
  IF ~w.hasWindow THEN NoStorage
  ELSE IF w.objs[i].storageType = "localStorage" THEN "localStorage"
  ELSE IF w.objs[i].storageType = "sessionStorage" THEN "sessionStorage"
  ELSE NoStorage

\* readPersisted(): the stored array, or [] when there is no storage, no
\* value, a value that does not parse or one that is not an array.
readPersisted(w, i) ==
  LET storage == getStorage(w, i)
  IN IF storage = NoStorage THEN <<>>
     ELSE LET raw == w.store[storage]
          IN IF Falsy(raw) THEN <<>>
             ELSE LET parsed == JSONparse(raw)
                  IN IF ~parsed.ok THEN <<>>
                     ELSE IF parsed.isArray THEN parsed.value ELSE <<>>

\* writePersisted(items) that stores the empty array as "[]".
writePersistedNoRemove(w, i, items) ==
  LET storage == getStorage(w, i)
  IN IF storage = NoStorage THEN w
     ELSE [w EXCEPT !.store[storage] = JSONstringify(items)]

\* writePersisted(items) without the try and catch: what setItem or
\* removeItem throws leaves the method.
writePersistedNoCatch(w, i, items) ==
  LET storage == getStorage(w, i)
  IN IF storage = NoStorage THEN w
     ELSE IF w.writeThrows THEN [w EXCEPT !.thrown = TRUE]
     ELSE IF Len(items) = 0
          THEN [w EXCEPT !.store[storage] = Absent]
          ELSE [w EXCEPT !.store[storage] = JSONstringify(items)]

\* writePersisted(items): removeItem for [], setItem otherwise; when either
\* throws the catch returns false and the stored value is as it was.
writePersisted(w, i, items) ==
  LET storage == getStorage(w, i)
  IN IF storage = NoStorage THEN w
     ELSE IF w.writeThrows THEN w
     ELSE IF Len(items) = 0
          THEN [w EXCEPT !.store[storage] = Absent]
          ELSE [w EXCEPT !.store[storage] = JSONstringify(items)]

\* claimPersisted() that removes the key whatever it read.
claimPersistedAlwaysRemoves(w, i) ==
  [world |-> writePersisted(w, i, <<>>), items |-> readPersisted(w, i)]

\* claimPersisted() that returns what it read and leaves it in storage.
claimPersistedNoRemove(w, i) ==
  [world |-> w, items |-> readPersisted(w, i)]

\* claimPersisted(): read, and remove what was read if it is not empty.
claimPersisted(w, i) ==
  LET items == readPersisted(w, i)
  IN [world |-> IF Len(items) # 0 THEN writePersisted(w, i, <<>>) ELSE w,
      items |-> items]

\* clearTimer() that forgets the timer without cancelling it.
clearTimerForgets(w, i) ==
  IF w.objs[i].timerId # None
  THEN [w EXCEPT !.objs[i].timerId = None]
  ELSE w

\* clearTimer()
clearTimer(w, i) ==
  IF w.objs[i].timerId # None
  THEN [clearTimeout(w, w.objs[i].timerId) EXCEPT !.objs[i].timerId = None]
  ELSE w

\* scheduleFlush() that never resets a timer already armed.
scheduleFlushKeepFirst(w, i) ==
  IF w.objs[i].timerId # None THEN w
  ELSE [setTimeout(w, i, "flush", <<>>, w.objs[i].delayMs)
          EXCEPT !.objs[i].timerId = w.nextId]

\* scheduleFlush() that resets the timer whatever resetTimerOnPush says.
scheduleFlushAlwaysReset(w, i) ==
  LET v == clearTimer(w, i)
  IN [setTimeout(v, i, "flush", <<>>, v.objs[i].delayMs)
        EXCEPT !.objs[i].timerId = v.nextId]

\* scheduleFlush() that arms the timer one unit short of delayMs.
scheduleFlushShort(w, i) ==
  LET arm(v) == [setTimeout(v, i, "flush", <<>>, v.objs[i].delayMs - 1)
                   EXCEPT !.objs[i].timerId = v.nextId]
  IN IF w.objs[i].resetTimerOnPush THEN arm(clearTimer(w, i))
     ELSE IF w.objs[i].timerId # None THEN w
     ELSE arm(w)

\* scheduleFlush()
scheduleFlush(w, i) ==
  LET arm(v) == [setTimeout(v, i, "flush", <<>>, v.objs[i].delayMs)
                   EXCEPT !.objs[i].timerId = v.nextId]
  IN IF w.objs[i].resetTimerOnPush THEN arm(clearTimer(w, i))
     ELSE IF w.objs[i].timerId # None THEN w
     ELSE arm(w)

\* push(item)
push(w, i, item) ==
  LET w1 == [w EXCEPT !.objs[i].buffer = Append(@, item)]
      w2 == IF w1.objs[i].storageType # "memory"
            THEN writePersisted(w1, i, w1.objs[i].buffer) ELSE w1
  IN [scheduleFlush(w2, i) EXCEPT !.ret = None]

\* The loop of emit without the try and catch: the first callback that throws
\* ends it and what it threw leaves emit.
RECURSIVE forEachNoCatch(_, _)
forEachNoCatch(cbs, k) ==
  IF k > Len(cbs) THEN [called |-> <<>>, caught |-> {}, thrown |-> FALSE]
  ELSE IF Throws(cbs[k])
       THEN [called |-> <<cbs[k]>>, caught |-> {}, thrown |-> TRUE]
       ELSE LET rest == forEachNoCatch(cbs, k + 1)
            IN [called |-> <<cbs[k]>> \o rest.called,
                caught |-> rest.caught, thrown |-> rest.thrown]

\* listeners.get(event)?.forEach(cb => ...), from the k-th callback of the
\* Set on: each callback is called with the payload inside a try, and what one
\* throws is caught, so the next is called and nothing leaves the loop.
RECURSIVE forEach(_, _)
forEach(cbs, k) ==
  IF k > Len(cbs) THEN [called |-> <<>>, caught |-> {}, thrown |-> FALSE]
  ELSE LET threw == Throws(cbs[k])         \* try { cb(payload) } catch { }
           rest == forEach(cbs, k + 1)
       IN [called |-> <<cbs[k]>> \o rest.called,
           caught |-> (IF threw THEN {cbs[k]} ELSE {}) \cup rest.caught,
           thrown |-> rest.thrown]

\* What the callbacks called do to the collector while emit runs, from the
\* k-th on: a pushing callback calls push with the next item (it does so until
\* MaxPush pushes have been made), the others leave the collector alone.
RECURSIVE react(_, _, _, _)
react(w, i, called, k) ==
  IF k > Len(called) THEN w
  ELSE IF called[k] \in Pushing /\ w.npush < MaxPush
       THEN react([push(w, i, w.npush + 1) EXCEPT !.npush = @ + 1],
                  i, called, k + 1)
       ELSE react(w, i, called, k + 1)

\* emit(event, payload): the loop from the first callback. The call is logged
\* with the callbacks that were called, the buffer and the storages as they
\* are when the first callback runs, the items the callbacks pushed, where the
\* call came from and the push cycle it closes: its items and the time since
\* its first and last push.
emit(w, i, event, payload, src) ==
  LET done == forEach(w.objs[i].listeners[event], 1)
      after == react(w, i, done.called, 1)
  IN [after EXCEPT
       !.thrown = @ \/ done.thrown,
       !.emitted[i] =
          Append(@, [items |-> payload, src |-> src,
                     to |-> done.called,
                     caught |-> done.caught,
                     buffer |-> w.objs[i].buffer,
                     store |-> w.store,
                     pushed |-> [k \in 1..(after.npush - w.npush) |->
                                   w.npush + k],
                     sinceLast |-> w.sinceLast[i],
                     sinceFirst |-> w.sinceFirst[i],
                     cycleItems |-> w.cycleItems[i]])]

\* flush(clear) without the return on an empty buffer.
flushEmitsEmpty(w, i, clear) ==
  LET w1 == clearTimer(w, i)
      items == w1.objs[i].buffer
      w2 == IF clear
            THEN LET w3 == [w1 EXCEPT !.objs[i].buffer = <<>>]
                 IN IF w3.objs[i].storageType # "memory"
                    THEN writePersisted(w3, i, <<>>) ELSE w3
            ELSE w1
  IN [emit(w2, i, BATCH_FLUSH_EVENT, items, "timer") EXCEPT !.ret = TRUE]

\* flush(clear) that clears buffer and storage whatever clear says.
flushAlwaysClears(w, i, clear) ==
  LET w1 == clearTimer(w, i)
      items == w1.objs[i].buffer
      w3 == [w1 EXCEPT !.objs[i].buffer = <<>>]
      w2 == IF w3.objs[i].storageType # "memory"
            THEN writePersisted(w3, i, <<>>) ELSE w3
  IN IF Len(w1.objs[i].buffer) = 0 THEN [w1 EXCEPT !.ret = FALSE]
     ELSE [emit(w2, i, BATCH_FLUSH_EVENT, items, "timer") EXCEPT !.ret = TRUE]

\* flush(clear) that emits first and clears buffer and storage afterwards.
flushEmitsFirst(w, i, clear) ==
  LET w1 == clearTimer(w, i)
      items == w1.objs[i].buffer
      w2 == emit(w1, i, BATCH_FLUSH_EVENT, items, "timer")
      w3 == [w2 EXCEPT !.objs[i].buffer = <<>>]
  IN IF Len(w1.objs[i].buffer) = 0 THEN [w1 EXCEPT !.ret = FALSE]
     ELSE IF ~clear THEN [w2 EXCEPT !.ret = TRUE]
     ELSE IF w3.objs[i].storageType # "memory"
          THEN [writePersisted(w3, i, <<>>) EXCEPT !.ret = TRUE]
          ELSE [w3 EXCEPT !.ret = TRUE]

\* flush(clear) that cancels the timer after the callbacks have run, not
\* before.
flushClearsTimerLast(w, i, clear) ==
  LET items == w.objs[i].buffer
      w2 == IF clear
            THEN LET w3 == [w EXCEPT !.objs[i].buffer = <<>>]
                 IN IF w3.objs[i].storageType # "memory"
                    THEN writePersisted(w3, i, <<>>) ELSE w3
            ELSE w
  IN IF Len(w.objs[i].buffer) = 0 THEN [clearTimer(w, i) EXCEPT !.ret = FALSE]
     ELSE [clearTimer(emit(w2, i, BATCH_FLUSH_EVENT, items, "timer"), i)
             EXCEPT !.ret = TRUE]

\* flush(clear)
flush(w, i, clear) ==
  LET w1 == clearTimer(w, i)
      items == w1.objs[i].buffer
      w2 == IF clear
            THEN LET w3 == [w1 EXCEPT !.objs[i].buffer = <<>>]
                 IN IF w3.objs[i].storageType # "memory"
                    THEN writePersisted(w3, i, <<>>) ELSE w3
            ELSE w1
  IN IF Len(w1.objs[i].buffer) = 0 THEN [w1 EXCEPT !.ret = FALSE]
     ELSE [emit(w2, i, BATCH_FLUSH_EVENT, items, "timer") EXCEPT !.ret = TRUE]

\* clear() that leaves the flush timer armed.
clearKeepsTimer(w, i) ==
  LET w1 == [w EXCEPT !.objs[i].buffer = <<>>]
      w2 == IF w1.objs[i].storageType # "memory"
            THEN writePersisted(w1, i, <<>>) ELSE w1
  IN [w2 EXCEPT !.ret = TRUE]

\* clear()
clear(w, i) ==
  LET w1 == [clearTimer(w, i) EXCEPT !.objs[i].buffer = <<>>]
      w2 == IF w1.objs[i].storageType # "memory"
            THEN writePersisted(w1, i, <<>>) ELSE w1
  IN [w2 EXCEPT !.ret = TRUE]

\* subscribe(event, callback): Set.add keeps a callback once, in the place it
\* was first added. The function returned is kept with the caller.
subscribe(w, i, event, l) ==
  LET w1 == IF l \in SeqRange(w.objs[i].listeners[event]) THEN w
            ELSE [w EXCEPT !.objs[i].listeners[event] = Append(@, l)]
  IN [w1 EXCEPT !.unsubs[i] = @ \cup {<<event, l>>}]

\* An unsubscribe function that deletes the callback from the Set of every
\* event.
unsubscribeEveryEvent(w, i, event, l) ==
  LET Other(c) == c # l
  IN [w EXCEPT !.objs[i].listeners = [e \in Events |-> SelectSeq(@[e], Other)],
               !.ret = l \in SeqRange(w.objs[i].listeners[event])]

\* The function subscribe(event, callback) returned:
\* () => this.listeners.get(event)?.delete(callback). Set.delete returns
\* whether the callback was in the Set.
unsubscribe(w, i, event, l) ==
  LET Other(c) == c # l
  IN [w EXCEPT !.objs[i].listeners[event] = SelectSeq(@, Other),
               !.ret = l \in SeqRange(w.objs[i].listeners[event])]

\* A constructor that schedules the recovery emission whatever it read.
constructorAlwaysReplays(w, i, config) ==
  LET w1 == [w EXCEPT !.objs[i] =
               [live |-> TRUE, delayMs |-> config.delayMs,
                resetTimerOnPush |-> config.resetTimerOnPush,
                storageType |-> config.storageType,
                autoClear |-> config.autoClear,
                buffer |-> <<>>, timerId |-> None, listeners |-> NoListeners]]
      got == IF config.autoClear THEN claimPersisted(w1, i)
             ELSE [world |-> w1, items |-> readPersisted(w1, i)]
  IN IF config.storageType # "memory"
     THEN setTimeout(got.world, i, "recovery", got.items, 0)
     ELSE w1

\* A constructor that emits what it recovered at once, not on a later tick.
constructorSyncEmit(w, i, config) ==
  LET w1 == [w EXCEPT !.objs[i] =
               [live |-> TRUE, delayMs |-> config.delayMs,
                resetTimerOnPush |-> config.resetTimerOnPush,
                storageType |-> config.storageType,
                autoClear |-> config.autoClear,
                buffer |-> <<>>, timerId |-> None, listeners |-> NoListeners]]
      got == IF config.autoClear THEN claimPersisted(w1, i)
             ELSE [world |-> w1, items |-> readPersisted(w1, i)]
  IN IF config.storageType # "memory"
     THEN IF Len(got.items) # 0
          THEN emit(got.world, i, BATCH_FLUSH_EVENT, got.items, "recovery")
          ELSE got.world
     ELSE w1

\* A constructor that also keeps what it recovered in its buffer.
constructorAdopts(w, i, config) ==
  LET w1 == [w EXCEPT !.objs[i] =
               [live |-> TRUE, delayMs |-> config.delayMs,
                resetTimerOnPush |-> config.resetTimerOnPush,
                storageType |-> config.storageType,
                autoClear |-> config.autoClear,
                buffer |-> <<>>, timerId |-> None, listeners |-> NoListeners]]
      got == IF config.autoClear THEN claimPersisted(w1, i)
             ELSE [world |-> w1, items |-> readPersisted(w1, i)]
      w2 == [got.world EXCEPT !.objs[i].buffer = got.items]
  IN IF config.storageType # "memory"
     THEN IF Len(got.items) # 0
          THEN setTimeout(w2, i, "recovery", got.items, 0)
          ELSE got.world
     ELSE w1

\* new BatchCollector(config)
constructor(w, i, config) ==
  LET w1 == [w EXCEPT !.objs[i] =
               [live |-> TRUE, delayMs |-> config.delayMs,
                resetTimerOnPush |-> config.resetTimerOnPush,
                storageType |-> config.storageType,
                autoClear |-> config.autoClear,
                buffer |-> <<>>, timerId |-> None, listeners |-> NoListeners]]
      got == IF config.autoClear THEN claimPersisted(w1, i)
             ELSE [world |-> w1, items |-> readPersisted(w1, i)]
  IN IF config.storageType # "memory"
     THEN IF Len(got.items) # 0
          THEN setTimeout(got.world, i, "recovery", got.items, 0)
          ELSE got.world
     ELSE w1

\* items()
items(w, i) == w.objs[i].buffer

\* ---------------------------------------------------------------- actions
\* What may sit under the localStorage key before the first collector is
\* constructed; sessionStorage starts empty, and without a window there is no
\* storage to hold anything.
InitialStores ==
  {Absent, JSONstringify(<<8, 9>>), ArrayText(<<>>), ObjectText, BadText,
   EmptyText}

Init ==
  /\ hasWindow \in BOOLEAN
  /\ \E raw \in (IF hasWindow THEN InitialStores ELSE {Absent}) :
       store = [k \in StorageKinds |->
                  IF k = "localStorage" THEN raw ELSE Absent]
  /\ timers = <<>>
  /\ nextId = 1
  /\ objs = [i \in Inst |-> Unborn]
  /\ emitted = [i \in Inst |-> <<>>]
  /\ ret = None
  /\ lastOp = [op |-> "init", inst |-> 0]
  /\ sinceLast = [i \in Inst |-> None]
  /\ sinceFirst = [i \in Inst |-> None]
  /\ cycleItems = [i \in Inst |-> <<>>]
  /\ npush = 0
  /\ store0 = store
  /\ lastClear = [i \in Inst |-> None]
  /\ writeThrows = FALSE
  /\ thrown = FALSE
  /\ unsubs = [i \in Inst |-> {}]

\* Instances are constructed one after the other.
Construct(i, config) ==
  /\ ~objs[i].live
  /\ \A j \in 1..(i - 1) : objs[j].live
  /\ Commit([constructor(World, i, config) EXCEPT !.ret = None])
  /\ lastOp' = [op |-> "construct", inst |-> i]
  /\ UNCHANGED <<npush, store0, lastClear>>

Subscribe(i, event, l) ==
  /\ objs[i].live
  /\ l \notin SeqRange(objs[i].listeners[event])
  /\ Commit([subscribe(World, i, event, l) EXCEPT !.ret = None])
  /\ lastOp' = [op |-> "subscribe", inst |-> i]
  /\ UNCHANGED <<npush, store0, lastClear>>

\* A caller calls a function that subscribe(event, l) returned to it.
Unsubscribe(i, event, l) ==
  /\ objs[i].live
  /\ <<event, l>> \in unsubs[i]
  /\ Commit(unsubscribe(World, i, event, l))
  /\ lastOp' = [op |-> "unsubscribe", inst |-> i, event |-> event, cb |-> l]
  /\ UNCHANGED <<npush, store0, lastClear>>

\* The collector never looks into an item: the k-th push made carries item k.
Push(i, item) ==
  /\ objs[i].live
  /\ LET w == push(World, i, item)
     IN Commit([w EXCEPT !.sinceLast[i] = 0,
                         !.sinceFirst[i] = IF @ = None THEN 0 ELSE @,
                         !.cycleItems[i] = Append(@, item)])
  /\ lastOp' = [op |-> "push", inst |-> i]
  /\ npush' = npush + 1
  /\ UNCHANGED <<store0, lastClear>>

Clear(i) ==
  /\ objs[i].live
  /\ LET w == clear(World, i)
     IN Commit([w EXCEPT !.sinceLast[i] = None, !.sinceFirst[i] = None,
                         !.cycleItems[i] = <<>>])
  /\ lastOp' = [op |-> "clear", inst |-> i]
  /\ lastClear' = [lastClear EXCEPT ![i] = npush]
  /\ UNCHANGED <<npush, store0>>

\* flush(clear) called on the instance itself and not by its timer: private
\* restricts the type checker only, the compiled class has the method. Such
\* calls are made until MaxEmit events have been emitted.
Flush(i, clearIt) ==
  /\ objs[i].live
  /\ Len(emitted[i]) < MaxEmit
  /\ Commit([flush(World, i, clearIt)
               EXCEPT !.sinceLast[i] = None, !.sinceFirst[i] = None,
                      !.cycleItems[i] = <<>>])
  /\ lastOp' = [op |-> "flush()", inst |-> i]
  /\ UNCHANGED <<npush, store0, lastClear>>

\* The storage starts to refuse writes (its quota is used up, or the browser
\* denies access), or accepts them again.
StorageFault ==
  /\ hasWindow
  /\ writeThrows' = ~writeThrows
  /\ lastOp' = [op |-> "fault", inst |-> 0]
  /\ UNCHANGED <<hasWindow, store, timers, nextId, objs, emitted, ret,
                 sinceLast, sinceFirst, cycleItems, npush, store0, lastClear,
                 thrown, unsubs>>

\* The pending timers that are due, and the one the host runs next.
Due == {k \in 1..Len(timers) : timers[k].left = 0}

NextDue == CHOOSE k \in Due : \A j \in Due : k <= j

\* The host runs a due timer: it leaves the table, then its callback runs.
\* A flush closes the push cycle; the items its callbacks push while it runs
\* (fresh) open the next, and those pushed during a recovery emission join
\* the cycle under way.
TimerFire ==
  /\ Due # {}
  /\ LET t == timers[NextDue]
         w0 == clearTimeout(World, t.id)
         w1 == IF t.kind = "flush"
               THEN flush(w0, t.inst, w0.objs[t.inst].autoClear)
               ELSE [emit(w0, t.inst, BATCH_FLUSH_EVENT, t.payload,
                          "recovery")
                       EXCEPT !.ret = None]
         fresh == [k \in 1..(w1.npush - npush) |-> npush + k]
     IN /\ IF t.kind = "flush"
           THEN Commit([w1 EXCEPT
                          !.sinceLast[t.inst] =
                             IF fresh = <<>> THEN None ELSE 0,
                          !.sinceFirst[t.inst] =
                             IF fresh = <<>> THEN None ELSE 0,
                          !.cycleItems[t.inst] = fresh])
           ELSE Commit([w1 EXCEPT
                          !.sinceLast[t.inst] =
                             IF fresh = <<>> THEN @ ELSE 0,
                          !.sinceFirst[t.inst] =
                             IF fresh # <<>> /\ @ = None THEN 0 ELSE @,
                          !.cycleItems[t.inst] = @ \o fresh])
        /\ lastOp' = [op |-> IF t.kind = "flush" THEN "flush" ELSE "recovery",
                      inst |-> t.inst]
        /\ npush' = w1.npush
  /\ UNCHANGED <<store0, lastClear>>

\* One unit of time passes. No timer is late, so none is due; and while no
\* timer is pending the passing of time changes nothing.
Age(a) == IF a = None THEN None ELSE a + 1

Tick ==
  /\ timers # <<>>
  /\ Due = {}
  /\ timers' = [k \in 1..Len(timers) |-> [timers[k] EXCEPT !.left = @ - 1]]
  /\ sinceLast' = [i \in Inst |-> Age(sinceLast[i])]
  /\ sinceFirst' = [i \in Inst |-> Age(sinceFirst[i])]
  /\ lastOp' = [op |-> "tick", inst |-> 0]
  /\ UNCHANGED <<hasWindow, store, nextId, objs, emitted, ret, cycleItems,
                 npush, store0, lastClear, writeThrows, thrown, unsubs>>

\* One collector, of any configuration, on a key that may hold anything.
Next ==
  \/ \E config \in Configs : Construct(1, config)
  \/ \E l \in Listeners : Subscribe(1, BATCH_FLUSH_EVENT, l)
  \/ \E item \in {npush + 1} : npush < MaxPush /\ Push(1, item)
  \/ Clear(1)
  \/ TimerFire
  \/ Tick

Spec == Init /\ [][Next]_vars

\* Several collectors constructed one after the other on the localStorage
\* key, none of which pushes: what each recovers of what the key held. With
\* no push no flush timer is ever armed, so the delay and the reset policy
\* are fixed.
RecoveryConfigs ==
  {c \in Configs : /\ c.storageType = "localStorage"
                    /\ c.delayMs = 1
                    /\ c.resetTimerOnPush}


NextRecovery ==
  \/ \E i \in Inst, config \in RecoveryConfigs : Construct(i, config)
  \/ \E i \in Inst, l \in Listeners : Subscribe(i, BATCH_FLUSH_EVENT, l)
  \/ \E i \in Inst : Clear(i)
  \/ TimerFire

SpecRecovery == Init /\ [][NextRecovery]_vars

\* One collector with several callbacks on the flush event, one of which
\* throws, subscribed in any order and at any time. The delay and the reset
\* policy are fixed.
ListenerConfigs ==
  {c \in Configs : /\ c.delayMs = 1
                    /\ c.resetTimerOnPush
                    /\ c.storageType \in {"memory", "localStorage"}}

NextListeners ==
  \/ \E config \in ListenerConfigs : Construct(1, config)
  \/ \E l \in AllListeners : Subscribe(1, BATCH_FLUSH_EVENT, l)
  \/ \E item \in {npush + 1} : npush < MaxPush /\ Push(1, item)
  \/ TimerFire
  \/ Tick

SpecListeners == Init /\ [][NextListeners]_vars

\* One collector whose flush() is also called directly, at any time, so that
\* it meets every buffer and not only those its timer meets. The delay, the
\* reset policy and the storage are fixed.
FlushConfigs ==
  {c \in Configs : /\ c.delayMs = 1
                    /\ c.resetTimerOnPush
                    /\ c.storageType = "localStorage"}

NextFlush ==
  \/ \E config \in FlushConfigs : Construct(1, config)
  \/ \E l \in Listeners : Subscribe(1, BATCH_FLUSH_EVENT, l)
  \/ \E item \in {npush + 1} : npush < MaxPush /\ Push(1, item)
  \/ \E clearIt \in BOOLEAN : Flush(1, clearIt)
  \/ TimerFire
  \/ Tick

SpecFlush == Init /\ [][NextFlush]_vars

\* One collector with two callbacks on the flush event, one of them on another
\* event too, subscribed and unsubscribed at any time, each unsubscribe
\* function called any number of times. One push fewer is made than elsewhere.
NextUnsubscribe ==
  \/ \E config \in FlushConfigs : Construct(1, config)
  \/ \E l \in Returning : Subscribe(1, BATCH_FLUSH_EVENT, l)
  \/ \E l \in Listeners : Subscribe(1, "other", l)
  \/ \E e \in Events, l \in Returning : Unsubscribe(1, e, l)
  \/ \E item \in {npush + 1} : npush < MaxPush - 1 /\ Push(1, item)
  \/ TimerFire
  \/ Tick

SpecUnsubscribe == Init /\ [][NextUnsubscribe]_vars

\* One collector on localStorage, which refuses writes from time to time or
\* is not there at all (no window). The delay is the longest, and one push
\* fewer is made than elsewhere.
StorageConfigs ==
  {c \in Configs : c.storageType = "localStorage" /\ c.delayMs = MaxDelay}

NextStorage ==
  \/ \E config \in StorageConfigs : Construct(1, config)
  \/ \E l \in Listeners : Subscribe(1, BATCH_FLUSH_EVENT, l)
  \/ \E item \in {npush + 1} : npush < MaxPush - 1 /\ Push(1, item)
  \/ Clear(1)
  \/ StorageFault
  \/ TimerFire
  \/ Tick

SpecStorage == Init /\ [][NextStorage]_vars

\* Collectors that are alive together on the localStorage key (as in two tabs
\* of a browser), all with the same autoClear, each pushing, clearing and
\* flushing on its own. One push fewer is made than elsewhere.
Sharers == 1..NumShared

NextShared ==
  \/ \E i \in Sharers, config \in RecoveryConfigs :
       /\ \A j \in 1..(i - 1) : objs[j].autoClear = config.autoClear
       /\ Construct(i, config)
  \/ \E i \in Sharers, l \in Listeners : Subscribe(i, BATCH_FLUSH_EVENT, l)
  \/ \E i \in Sharers, item \in {npush + 1} :
       npush < MaxPush - 1 /\ Push(i, item)
  \/ \E i \in Sharers : Clear(i)
  \/ TimerFire
  \/ Tick

SpecShared == Init /\ [][NextShared]_vars

\* One collector with a callback that pushes an item whenever it is called,
\* beside one that does not, and a caller that pushes too. The delay is the
\* longest.
ReentrantConfigs ==
  {c \in Configs : /\ c.delayMs = MaxDelay
                    /\ c.storageType \in {"memory", "localStorage"}}

NextReentrant ==
  \/ \E config \in ReentrantConfigs : Construct(1, config)
  \/ \E l \in Listeners \cup Pushing : Subscribe(1, BATCH_FLUSH_EVENT, l)
  \/ \E item \in {npush + 1} : npush < MaxPush /\ Push(1, item)
  \/ TimerFire
  \/ Tick

SpecReentrant == Init /\ [][NextReentrant]_vars

\* ------------------------------------------------------------- properties
\* The emit calls of instance i made by its flush timer, and by its recovery.
TimerEvents(i) == {k \in 1..Len(emitted[i]) : emitted[i][k].src = "timer"}

RecoveryEvents(i) ==
  {k \in 1..Len(emitted[i]) : emitted[i][k].src = "recovery"}

\* The callbacks subscribed to the flush event of instance i, in the order in
\* which they are called.
Subscribers(i) == objs[i].listeners[BATCH_FLUSH_EVENT]

\* The pending flush timers of instance i.
FlushTimers(i) ==
  {k \in 1..Len(timers) : timers[k].inst = i /\ timers[k].kind = "flush"}

RecoveryTimers(i) ==
  {k \in 1..Len(timers) : timers[k].inst = i /\ timers[k].kind = "recovery"}

IsSuffix(s, t) ==
  /\ Len(s) <= Len(t)
  /\ \A k \in 1..Len(s) : s[k] = t[Len(t) - Len(s) + k]

\* C1. Quiescence: with resetTimerOnPush and autoClear, the pushes of a cycle
\* are flushed exactly once, delayMs after the last of them, and the payload is
\* the pushed items in push order. While pushed items wait, exactly one flush
\* timer is pending and it is due delayMs after the last push; every flush the
\* timer has made came delayMs after the last push of its cycle and carried
\* exactly the items of that cycle; and no flush timer is pending without
\* pushed items, so no second flush follows.
C1_Quiescence ==
  \A i \in Inst :
    (objs[i].live /\ objs[i].resetTimerOnPush /\ objs[i].autoClear) =>
      /\ \A k \in TimerEvents(i) :
           /\ emitted[i][k].sinceLast = objs[i].delayMs
           /\ emitted[i][k].items = emitted[i][k].cycleItems
           /\ emitted[i][k].items # <<>>
      /\ cycleItems[i] # <<>> =>
           /\ Cardinality(FlushTimers(i)) = 1
           /\ \A k \in FlushTimers(i) :
                timers[k].left = objs[i].delayMs - sinceLast[i]
           /\ objs[i].buffer = cycleItems[i]
      /\ cycleItems[i] = <<>> => FlushTimers(i) = {}

\* C1 witness: a flush of two or more items whose timer was reset by a later
\* push (the last push came after the first).
C1_Witness ==
  \E k \in TimerEvents(1) :
    /\ objs[1].resetTimerOnPush /\ objs[1].autoClear
    /\ Len(emitted[1][k].items) >= 2
    /\ emitted[1][k].sinceFirst > emitted[1][k].sinceLast

\* C2. Fixed window: with resetTimerOnPush = false a push while the timer is
\* armed does not reschedule it; the flush comes exactly delayMs after the
\* first push of the cycle, once, and its payload ends with the items pushed
\* in the cycle, in push order.
C2_FixedWindow ==
  \A i \in Inst :
    (objs[i].live /\ ~objs[i].resetTimerOnPush) =>
      /\ \A k \in TimerEvents(i) :
           /\ emitted[i][k].sinceFirst = objs[i].delayMs
           /\ emitted[i][k].cycleItems # <<>>
           /\ IsSuffix(emitted[i][k].cycleItems, emitted[i][k].items)
           /\ objs[i].autoClear =>
                emitted[i][k].items = emitted[i][k].cycleItems
      /\ cycleItems[i] # <<>> =>
           /\ Cardinality(FlushTimers(i)) = 1
           /\ \A k \in FlushTimers(i) :
                timers[k].left = objs[i].delayMs - sinceFirst[i]
           /\ IsSuffix(cycleItems[i], objs[i].buffer)
      /\ cycleItems[i] = <<>> => FlushTimers(i) = {}

\* C2 witness: a flush whose cycle had a second push after the timer was
\* armed, and which still came delayMs after the first.
C2_Witness ==
  \E k \in TimerEvents(1) :
    /\ ~objs[1].resetTimerOnPush
    /\ Len(emitted[1][k].cycleItems) >= 2
    /\ emitted[1][k].sinceLast < emitted[1][k].sinceFirst
    /\ emitted[1][k].sinceFirst = objs[1].delayMs

\* The time since the push that armed the timer: the last push under
\* resetTimerOnPush, the first push of the cycle otherwise.
SinceArming(i, last, first) == IF objs[i].resetTimerOnPush THEN last ELSE first

\* C3. No early flush: the flush timer never emits, and is never due, before
\* delayMs has passed since the push that armed it.
C3_NoEarlyFlush ==
  \A i \in Inst :
    objs[i].live =>
      /\ \A k \in TimerEvents(i) :
           /\ emitted[i][k].sinceLast # None
           /\ SinceArming(i, emitted[i][k].sinceLast, emitted[i][k].sinceFirst)
                >= objs[i].delayMs
      /\ \A k \in FlushTimers(i) :
           /\ sinceLast[i] # None
           /\ timers[k].left + SinceArming(i, sinceLast[i], sinceFirst[i])
                >= objs[i].delayMs

\* C3 witness: delayMs - 1 after the arming push of a delay of two or more,
\* the timer is still pending and nothing has been emitted.
C3_Witness ==
  /\ objs[1].live /\ objs[1].delayMs >= 2
  /\ sinceLast[1] # None
  /\ SinceArming(1, sinceLast[1], sinceFirst[1]) = objs[1].delayMs - 1
  /\ FlushTimers(1) # {}
  /\ emitted[1] = <<>>

\* Instance i is bound to a storage that exists.
Bound(i) ==
  objs[i].live /\ hasWindow /\ objs[i].storageType \in StorageKinds

\* The batch the key of instance i held before any collector was constructed
\* (empty when it held none).
Persisted0(i) ==
  IF Bound(i) /\ store0[objs[i].storageType].kind = "array"
  THEN JSONparse(store0[objs[i].storageType]).value
  ELSE <<>>

\* The payloads the listeners of instance i have received, in order.
Received(i) ==
  LET Heard(e) == e.to # <<>>
      heard == SelectSeq(emitted[i], Heard)
  IN [k \in 1..Len(heard) |-> heard[k].items]

\* Instances 1..n are constructed on the localStorage key with autoClear, the
\* key held a non-empty batch, and their recovery ticks have run.
Recovered(n) ==
  /\ hasWindow
  /\ store0["localStorage"].kind = "array"
  /\ store0["localStorage"].elems # <<>>
  /\ \A i \in 1..n : /\ objs[i].live
                      /\ objs[i].storageType = "localStorage"
                      /\ objs[i].autoClear
                      /\ RecoveryTimers(i) = {}

\* C4 as stated. At-most-once recovery: after two or more autoClear instances
\* were constructed on a key holding a batch and the recovery ticks ran, the
\* key is absent, only the first instance has emitted (the batch, once), and
\* what the listeners of all of them received is exactly that batch.
C4_Original ==
  \A n \in 2..NumInst :
    Recovered(n) =>
      /\ store["localStorage"] = Absent
      /\ Len(emitted[1]) = 1
      /\ emitted[1][1].src = "recovery"
      /\ emitted[1][1].items = Persisted0(1)
      /\ \A i \in 2..n : emitted[i] = <<>>
      /\ Received(1) = <<Persisted0(1)>>

\* C4 as amended: the same, but the listeners receive the batch only if one
\* was subscribed to the first instance when its recovery tick ran; if none
\* was, no listener of any instance has received anything.
C4_AtMostOnceRecovery ==
  \A n \in 2..NumInst :
    Recovered(n) =>
      /\ store["localStorage"] = Absent
      /\ Len(emitted[1]) = 1
      /\ emitted[1][1].src = "recovery"
      /\ emitted[1][1].items = Persisted0(1)
      /\ \A i \in 2..n : emitted[i] = <<>> /\ Received(i) = <<>>
      /\ emitted[1][1].to # <<>> => Received(1) = <<Persisted0(1)>>
      /\ emitted[1][1].to = <<>> => Received(1) = <<>>

\* C4 witness: every instance constructed with autoClear on the key that held
\* [8, 9], every one of them with a listener, all ticks run, and the first
\* instance's listener holding the batch.
C4_Witness ==
  /\ Recovered(NumInst)
  /\ \A i \in Inst : Subscribers(i) # <<>>
  /\ Received(1) = <<(<<8, 9>>)>>

\* C5. Deferred recovery: the constructor claims (or reads) the persisted batch
\* and emits nothing itself; the batch is emitted once, by a zero-delay timer,
\* as one flush event with the persisted items in order, to every listener
\* subscribed by then.
C5_DeferredRecovery ==
  \A i \in Inst :
    Bound(i) =>
      /\ lastOp = [op |-> "construct", inst |-> i] =>
           /\ emitted[i] = <<>>
           /\ Persisted0(i) # <<>> =>
                /\ Cardinality(RecoveryTimers(i)) = 1
                /\ \A k \in RecoveryTimers(i) :
                     timers[k].payload = Persisted0(i) /\ timers[k].left = 0
                /\ objs[i].autoClear => store[objs[i].storageType] = Absent
      /\ Cardinality(RecoveryEvents(i)) + Cardinality(RecoveryTimers(i))
           = IF Persisted0(i) # <<>> THEN 1 ELSE 0
      /\ \A k \in RecoveryEvents(i) : emitted[i][k].items = Persisted0(i)
      /\ lastOp = [op |-> "recovery", inst |-> i] =>
           /\ emitted[i] # <<>>
           /\ emitted[i][Len(emitted[i])].src = "recovery"
           /\ emitted[i][Len(emitted[i])].to = Subscribers(i)

\* C5 witness: the recovery tick has just delivered [8, 9] to a listener that
\* was subscribed after construction.
C5_Witness ==
  /\ lastOp = [op |-> "recovery", inst |-> 1]
  /\ Subscribers(1) = <<"L1">>
  /\ Received(1) = <<(<<8, 9>>)>>

\* C6 as stated. An autoClear = false instance constructed on a key holding a
\* batch and then subscribed to: once recovery has run (and nothing was pushed
\* or cleared) the key still holds the batch, the listeners have received it,
\* and items() returns it.
C6_Claim ==
  \A i \in Inst :
    ( /\ Bound(i) /\ ~objs[i].autoClear
      /\ Persisted0(i) # <<>>
      /\ Subscribers(i) # <<>>
      /\ lastOp = [op |-> "recovery", inst |-> i]
      /\ npush = 0 /\ lastClear[i] = None ) =>
        /\ store[objs[i].storageType] = store0[objs[i].storageType]
        /\ emitted[i][Len(emitted[i])].items = Persisted0(i)
        /\ emitted[i][Len(emitted[i])].to = Subscribers(i)
        /\ items(World, i) = Persisted0(i)

\* The storage value of instance i's key.
Stored(i) == store[objs[i].storageType]

\* C7. Mirror: for a storage-bound instance, when a push, a timer flush or a
\* clear() has completed the key is absent or holds the serialized buffer;
\* after a push it holds the serialized buffer, and an empty buffer is the key
\* being absent, never a stored "[]".
C7_Mirror ==
  \A i \in Inst :
    (Bound(i) /\ lastOp.inst = i /\ lastOp.op \in {"push", "flush", "clear"}) =>
      /\ Stored(i) \in {Absent, JSONstringify(objs[i].buffer)}
      /\ lastOp.op = "push" => Stored(i) = JSONstringify(objs[i].buffer)
      /\ objs[i].buffer = <<>> => Stored(i) = Absent
      /\ objs[i].buffer # <<>> => Stored(i) = JSONstringify(objs[i].buffer)

\* C7 witness: after push(x); push(y) the key holds [x, y].
C7_Witness ==
  /\ Bound(1)
  /\ lastOp = [op |-> "push", inst |-> 1]
  /\ Len(objs[1].buffer) = 2
  /\ Stored(1) = JSONstringify(objs[1].buffer)

\* A stored value that is not the text of a JSON array.
NotArray(raw) == raw.kind \in {"object", "unparsable", "empty"}

\* C8 as stated. Foreign-data guard: a value under the key that is not a JSON
\* array is never modified or removed.
C8_Original ==
  \A k \in StorageKinds : NotArray(store0[k]) => store[k] = store0[k]

\* C8 as amended: such a value is left as it is by construction, subscription,
\* the recovery tick and the passing of time, that is until the first push or
\* clear() (a push overwrites it with the serialized buffer, clear() removes
\* it).
C8_ForeignUntilWritten ==
  \A k \in StorageKinds :
    (NotArray(store0[k]) /\ npush = 0 /\ \A i \in Inst : lastClear[i] = None)
      => store[k] = store0[k]

\* C8 witness: an autoClear instance constructed on a key holding a non-array
\* value, which is still there.
C8_Witness ==
  /\ Bound(1) /\ objs[1].autoClear
  /\ NotArray(store0[objs[1].storageType])
  /\ lastOp = [op |-> "construct", inst |-> 1]
  /\ Stored(1) = store0[objs[1].storageType]

\* C9. Malformed payload: constructing an instance on a key whose value does
\* not parse or is not an array leaves the value as it is, leaves items()
\* empty, and schedules no recovery emission, so none is ever emitted.
C9_MalformedIgnored ==
  \A i \in Inst :
    (Bound(i) /\ NotArray(store0[objs[i].storageType])) =>
      /\ lastOp = [op |-> "construct", inst |-> i] =>
           /\ Stored(i) = store0[objs[i].storageType]
           /\ items(World, i) = <<>>
      /\ RecoveryTimers(i) = {}
      /\ RecoveryEvents(i) = {}

\* C9 witness: a subscribed instance on a key holding a non-array JSON value,
\* no timer pending, nothing emitted, the value still there.
C9_Witness ==
  /\ Bound(1)
  /\ store0[objs[1].storageType].kind = "object"
  /\ Subscribers(1) # <<>>
  /\ timers = <<>> /\ emitted[1] = <<>>
  /\ Stored(1) = store0[objs[1].storageType]

\* C10. Clear: clear() returns true, leaves the buffer empty, no flush timer
\* armed and, on a bound instance, the key absent, and emits nothing; and a
\* timer flush only ever carries items pushed after the last clear(), at
\* least one of them pushed since the last flush.
C10_Clear ==
  [][\A i \in Inst :
       /\ lastOp' = [op |-> "clear", inst |-> i] =>
            /\ ret' = TRUE
            /\ objs'[i].buffer = <<>>
            /\ objs'[i].timerId = None
            /\ \A k \in 1..Len(timers') :
                 ~(timers'[k].inst = i /\ timers'[k].kind = "flush")
            /\ (hasWindow /\ objs'[i].storageType \in StorageKinds) =>
                 store'[objs'[i].storageType] = Absent
            /\ emitted' = emitted
       /\ ( /\ Len(emitted'[i]) > Len(emitted[i])
            /\ emitted'[i][Len(emitted'[i])].src = "timer" ) =>
            /\ emitted'[i][Len(emitted'[i])].cycleItems # <<>>
            /\ \A k \in 1..Len(emitted'[i][Len(emitted'[i])].items) :
                 \/ lastClear[i] = None
                 \/ emitted'[i][Len(emitted'[i])].items[k] > lastClear[i]
    ]_vars

\* C10 witness: items were pushed and cleared, and the only flush since
\* carries items pushed after the clear() alone.
C10_Witness ==
  /\ lastClear[1] # None /\ lastClear[1] >= 1
  /\ Len(emitted[1]) = 1
  /\ emitted[1][1].src = "timer"
  /\ \A k \in 1..Len(emitted[1][1].items) :
       emitted[1][1].items[k] > lastClear[1]

\* The world in which the callbacks that throw are not subscribed to the flush
\* event of instance i.
NoneThrows(w, i) ==
  LET Returns(l) == ~Throws(l)
  IN [w EXCEPT !.objs[i].listeners[BATCH_FLUSH_EVENT] = SelectSeq(@, Returns)]

\* What the timer callback that is due next makes of world w.
Callback(w) ==
  LET t == timers[NextDue]
      w0 == clearTimeout(w, t.id)
  IN IF t.kind = "flush"
     THEN flush(w0, t.inst, w0.objs[t.inst].autoClear)
     ELSE emit(w0, t.inst, BATCH_FLUSH_EVENT, t.payload, "recovery")

\* C11. A throwing listener: whenever a timer callback emits, from the flush
\* timer or from recovery, every callback subscribed to the flush event has
\* been called with the payload, in the order of subscription, whichever of
\* them throw; no exception has left the callback; and the buffer, the timer
\* and the storages are left as the same callback leaves them when the
\* callbacks that throw are not there.
C11_ThrowingListener ==
  [][\A i \in Inst :
       Len(emitted'[i]) > Len(emitted[i]) =>
         LET e == emitted'[i][Len(emitted'[i])]
             calm == Callback(NoneThrows(World, i))
         IN /\ e.to = objs[i].listeners[BATCH_FLUSH_EVENT]
            /\ ~thrown'
            /\ objs'[i].buffer = calm.objs[i].buffer
            /\ objs'[i].timerId = calm.objs[i].timerId
            /\ timers' = calm.timers
            /\ store' = calm.store
    ]_vars

\* C11 witness: a timer flush has just called three callbacks of which the
\* second threw, and the third was called after it.
C11_Witness ==
  /\ lastOp = [op |-> "flush", inst |-> 1]
  /\ emitted[1][Len(emitted[1])].to = <<"L1", "LT", "L2">>
  /\ emitted[1][Len(emitted[1])].caught = {"LT"}
  /\ ~thrown

\* C12. No empty flush event: every event emitted, by a flush or by the
\* recovery tick, carries at least one item; and a flush that finds the buffer
\* empty returns false, emits nothing and leaves buffer and storage alone.
C12_NoEmptyFlush ==
  [][\A i \in Inst :
       /\ Len(emitted'[i]) > Len(emitted[i]) =>
            /\ Len(emitted'[i]) = Len(emitted[i]) + 1
            /\ emitted'[i][Len(emitted'[i])].items # <<>>
       /\ ( /\ lastOp'.inst = i
            /\ lastOp'.op \in {"flush", "flush()"}
            /\ objs[i].buffer = <<>> ) =>
            /\ ret' = FALSE
            /\ emitted' = emitted
            /\ objs'[i].buffer = <<>>
            /\ store' = store
    ]_vars

\* C12 witness: a flush has found the buffer empty and returned false, after
\* an earlier flush had emitted the items pushed, to a subscribed callback.
C12_Witness ==
  /\ lastOp = [op |-> "flush()", inst |-> 1]
  /\ ret = FALSE
  /\ objs[1].buffer = <<>>
  /\ Received(1) # <<>>
  /\ \A k \in 1..Len(Received(1)) : Received(1)[k] # <<>>

\* The items pushed after the last clear() of instance i, when it alone pushes.
SinceClear(i) ==
  LET base == IF lastClear[i] = None THEN 0 ELSE lastClear[i]
  IN [k \in 1..(npush - base) |-> base + k]

\* C13. Manual clear mode: a timer flush of an autoClear = false instance
\* emits the whole buffer, which is every item pushed since the last clear()
\* in push order, earlier flushed items included; it leaves the buffer and
\* both storages as they were and no flush timer armed; and it comes only
\* after a push made since the flush before it.
C13_ManualClear ==
  [][\A i \in Inst :
       (lastOp' = [op |-> "flush", inst |-> i] /\ ~objs[i].autoClear) =>
         /\ Len(emitted'[i]) = Len(emitted[i]) + 1
         /\ emitted'[i][Len(emitted'[i])].items = objs[i].buffer
         /\ emitted'[i][Len(emitted'[i])].items = SinceClear(i)
         /\ emitted'[i][Len(emitted'[i])].cycleItems # <<>>
         /\ ret' = TRUE
         /\ objs'[i].buffer = objs[i].buffer
         /\ store' = store
         /\ objs'[i].timerId = None
         /\ \A k \in 1..Len(timers') :
              ~(timers'[k].inst = i /\ timers'[k].kind = "flush")
    ]_vars

\* C13 witness: a second timer flush has delivered the items of the first
\* again, followed by those pushed since, and the key still holds them all.
C13_Witness ==
  /\ Bound(1) /\ ~objs[1].autoClear
  /\ lastOp = [op |-> "flush", inst |-> 1]
  /\ Len(emitted[1]) = 2
  /\ emitted[1][1].src = "timer" /\ emitted[1][2].src = "timer"
  /\ Len(emitted[1][2].items) > Len(emitted[1][1].items)
  /\ IsSuffix(emitted[1][2].cycleItems, emitted[1][2].items)
  /\ emitted[1][2].items = emitted[1][1].items \o emitted[1][2].cycleItems
  /\ objs[1].buffer = emitted[1][2].items
  /\ Stored(1) = JSONstringify(objs[1].buffer)
  /\ timers = <<>>

\* C14. Unsubscribe: calling the function subscribe(event, cb) returned
\* removes cb from the callbacks of that event, keeps the others of that event
\* in their order, and leaves every other event's callbacks and the rest of
\* the collector alone; called when cb is not subscribed to the event it
\* changes nothing. Every emission, by the flush timer or by recovery, calls
\* exactly the callbacks subscribed to the flush event at that moment, so an
\* unsubscribed callback is called no more and the others still are.
C14_Unsubscribe ==
  [][\A i \in Inst :
       /\ (lastOp'.op = "unsubscribe" /\ lastOp'.inst = i) =>
            LET Other(c) == c # lastOp'.cb
            IN /\ objs'[i].listeners[lastOp'.event]
                    = SelectSeq(objs[i].listeners[lastOp'.event], Other)
               /\ \A e \in Events \ {lastOp'.event} :
                    objs'[i].listeners[e] = objs[i].listeners[e]
               /\ objs'[i] = [objs[i] EXCEPT !.listeners = objs'[i].listeners]
               /\ lastOp'.cb \notin SeqRange(objs[i].listeners[lastOp'.event])
                    => objs' = objs
               /\ timers' = timers /\ store' = store /\ emitted' = emitted
       /\ Len(emitted'[i]) > Len(emitted[i]) =>
            emitted'[i][Len(emitted'[i])].to = objs[i].listeners[BATCH_FLUSH_EVENT]
    ]_vars

\* C14 witness: L1 and L2 both received the recovered batch; L1 was then
\* unsubscribed from the flush event and the timer flush went to L2 alone; a
\* second call of the same function has just returned false, with L1 still
\* subscribed to the other event.
C14_Witness ==
  /\ lastOp = [op |-> "unsubscribe", inst |-> 1,
               event |-> BATCH_FLUSH_EVENT, cb |-> "L1"]
  /\ ret = FALSE
  /\ Len(emitted[1]) = 2
  /\ emitted[1][1].to = <<"L1", "L2">>
  /\ emitted[1][2].to = <<"L2">>
  /\ objs[1].listeners[BATCH_FLUSH_EVENT] = <<"L2">>
  /\ objs[1].listeners["other"] = <<"L1">>

\* The world in which instance i is a memory-only collector.
MemoryOnly(w, i) == [w EXCEPT !.objs[i].storageType = "memory"]

\* What instance i shows of itself: buffer, timer, emissions, and with them
\* the pending timers and the value returned.
Behaviour(w, i) ==
  <<w.objs[i].buffer, w.objs[i].timerId, w.timers, w.emitted[i], w.ret>>

\* C15. Failing storage: when setItem and removeItem throw, or there is no
\* storage at all, a push, a timer flush or a clear() of a storage-configured
\* instance throws nothing, leaves the storages as they were, and does to
\* buffer, timer and listeners exactly what it does on a memory-only
\* collector: the push appends its item and arms the timer as the reset policy
\* says, the flush emits the whole buffer in order.
C15_FailingStorage ==
  [][\A i \in Inst :
       ( /\ lastOp'.inst = i /\ lastOp'.op \in {"push", "flush", "clear"}
         /\ objs[i].storageType # "memory"
         /\ (writeThrows \/ ~hasWindow) ) =>
         /\ ~thrown'
         /\ store' = store
         /\ lastOp'.op = "push" =>
              /\ Behaviour(World', i)
                   = Behaviour(push(MemoryOnly(World, i), i, npush'), i)
              /\ objs'[i].buffer = Append(objs[i].buffer, npush')
              /\ \E k \in 1..Len(timers') :
                   /\ timers'[k].id = objs'[i].timerId
                   /\ timers'[k].kind = "flush"
                   /\ timers'[k].left =
                        IF objs[i].resetTimerOnPush \/ objs[i].timerId = None
                        THEN objs[i].delayMs
                        ELSE objs[i].delayMs - sinceFirst[i]
         /\ lastOp'.op = "flush" =>
              /\ Behaviour(World', i)
                   = Behaviour(Callback(MemoryOnly(World, i)), i)
              /\ emitted'[i][Len(emitted'[i])].items = objs[i].buffer
         /\ lastOp'.op = "clear" =>
              Behaviour(World', i) = Behaviour(clear(MemoryOnly(World, i), i), i)
    ]_vars

\* C15 witness: the first push was stored, then the storage refused the write
\* of the second push and the removal of the autoClear flush, which has just
\* delivered both items; the key still holds the first alone.
C15_Witness ==
  /\ Bound(1) /\ objs[1].autoClear
  /\ writeThrows /\ ~thrown
  /\ lastOp = [op |-> "flush", inst |-> 1]
  /\ emitted[1][Len(emitted[1])].items = <<1, 2>>
  /\ emitted[1][Len(emitted[1])].to # <<>>
  /\ objs[1].buffer = <<>>
  /\ Stored(1) = JSONstringify(<<1>>)

\* C16. One timer: an instance never has more than one flush timer pending;
\* timerId is the id of the pending one, or null; and a flush timer is pending
\* exactly when the buffer is not empty and an item was pushed since the last
\* flush, so never while the buffer is empty.
C16_OneTimer ==
  \A i \in Inst :
    objs[i].live =>
      /\ Cardinality(FlushTimers(i)) <= 1
      /\ \A k \in FlushTimers(i) : timers[k].id = objs[i].timerId
      /\ FlushTimers(i) = {} => objs[i].timerId = None
      /\ FlushTimers(i) # {} <=>
           (objs[i].buffer # <<>> /\ cycleItems[i] # <<>>)
      /\ objs[i].buffer = <<>> => FlushTimers(i) = {}

\* C16 witness: an autoClear = false instance whose timer, reset by its second
\* push, flushed [1, 2] and left the buffer full with no timer; the third push
\* armed the one timer now pending.
C16_Witness ==
  /\ objs[1].live /\ ~objs[1].autoClear /\ objs[1].resetTimerOnPush
  /\ Len(emitted[1]) = 1 /\ emitted[1][1].items = <<1, 2>>
  /\ emitted[1][1].sinceFirst > emitted[1][1].sinceLast
  /\ objs[1].buffer = <<1, 2, 3>>
  /\ cycleItems[1] = <<3>>
  /\ Cardinality(FlushTimers(1)) = 1

ItemsOf(raw) == SeqRange(JSONparse(raw).value)

\* C18. Unheard recovery: an autoClear instance constructed on a key holding a
\* batch leaves the key absent; the batch is never in its buffer and never
\* back under the key; and when no callback was subscribed at its recovery
\* tick, no callback ever receives an item of the batch, whenever it
\* subscribes.
C18_UnheardRecovery ==
  \A i \in Inst :
    (Bound(i) /\ objs[i].autoClear /\ Persisted0(i) # <<>>) =>
      /\ lastOp = [op |-> "construct", inst |-> i] => Stored(i) = Absent
      /\ SeqRange(items(World, i)) \cap SeqRange(Persisted0(i)) = {}
      /\ ItemsOf(Stored(i)) \cap SeqRange(Persisted0(i)) = {}
      /\ (\A k \in RecoveryEvents(i) : emitted[i][k].to = <<>>) =>
           \A k \in 1..Len(Received(i)) :
             SeqRange(Received(i)[k]) \cap SeqRange(Persisted0(i)) = {}

\* C18 witness: the recovery tick of an autoClear instance on a key that held
\* [8, 9] found no callback; the callback subscribed afterwards has received
\* the pushed item alone, and the key is absent.
C18_Witness ==
  /\ Bound(1) /\ objs[1].autoClear
  /\ Persisted0(1) = <<8, 9>>
  /\ Len(emitted[1]) = 2
  /\ emitted[1][1].src = "recovery" /\ emitted[1][1].to = <<>>
  /\ emitted[1][1].items = <<8, 9>>
  /\ emitted[1][2].to = <<"L1">>
  /\ Received(1) = <<(<<1>>)>>
  /\ items(World, 1) = <<>>
  /\ Stored(1) = Absent

\* Every instance constructed so far is bound to localStorage with the given
\* autoClear, and there is at least one.
AllOnKey(autoClear) ==
  /\ hasWindow
  /\ objs[1].live
  /\ \A i \in Inst :
       objs[i].live => /\ objs[i].storageType = "localStorage"
                       /\ objs[i].autoClear = autoClear

\* What instance i recovered at its construction: the payload of its recovery
\* emission, pending or made.
Pending(i) ==
  UNION ({SeqRange(timers[k].payload) : k \in RecoveryTimers(i)}
           \cup {SeqRange(emitted[i][k].items) : k \in RecoveryEvents(i)})

\* C19 as stated. Shared key with autoClear = false: construction leaves the
\* storage as it is, and until an instance calls clear() every item the key
\* held or that was pushed since is still under the key, so an instance just
\* constructed has recovered them all.
C19_Claim ==
  (AllOnKey(FALSE) /\ \A i \in Inst : lastClear[i] = None) =>
    /\ npush = 0 => store = store0
    /\ (ItemsOf(store0["localStorage"]) \cup 1..npush)
         \subseteq ItemsOf(store["localStorage"])
    /\ \A i \in Inst :
         lastOp = [op |-> "construct", inst |-> i] =>
           (ItemsOf(store0["localStorage"]) \cup 1..npush) \subseteq Pending(i)

\* The emissions of any instance that reached a callback and carried item x.
Deliveries(x) ==
  {ik \in Inst \X (1..(MaxPush + NumInst)) :
     /\ ik[2] <= Len(emitted[ik[1]])
     /\ emitted[ik[1]][ik[2]].to # <<>>
     /\ x \in SeqRange(emitted[ik[1]][ik[2]].items)}

\* C20 as stated. Shared key with autoClear = true: every pushed item reaches
\* callbacks at most once, counting the timer flushes and the recovery
\* emissions of all instances.
C20_Claim ==
  AllOnKey(TRUE) => \A x \in 1..npush : Cardinality(Deliveries(x)) <= 1

====
